---- MODULE Spec2Model ----
(***************************************************************************)
(* Monitoring dashboard of the distributed network monitor: the React      *)
(* client that polls the load balancer (/stats, /servers), listens to its  *)
(* WebSocket, and derives per-server history, topology traffic animation   *)
(* and load-balancer statistics from what it receives.                     *)
(*                                                                         *)
(* Each component is a state machine over its React state; a component's   *)
(* props are inputs that change when the parent re-renders.  JavaScript    *)
(* runs one callback at a time, so every handler, effect and promise       *)
(* continuation is one atomic action.                                      *)
(*                                                                         *)
(*   Spec          App.jsx: telemetry session (polls, push channel)        *)
(*   SpecPush      App.jsx: the push channel alone, long message streams   *)
(*   SpecTopology  NetworkTopology.jsx: traffic animation timers           *)
(*   SpecMetrics   ServerMetrics.jsx: per-server metrics history           *)
(*   SpecStatus    ServerMetrics.jsx: classification of one entity         *)
(*   SpecPerf      LoadBalancerStats.jsx: rolling performance sequences    *)
(*   SpecLB        LoadBalancerStats.jsx: algorithm history, request rate  *)
(***************************************************************************)
EXTENDS Integers, Sequences, FiniteSets, TLC

VARIABLES
  \* ---- App.jsx
  phase,          \* "init" (constructed), "mounted" (effect ran), "closed" (cleanup ran)
  stats,          \* useState(null): NullStats or the last body given to setStats
  servers,        \* useState([]): the entity list
  algorithm,      \* useState('round_robin')
  trafficData,    \* useState([]): rolling log of traffic_update payloads
  pollTimer,      \* TRUE while the setInterval(fetchStats, 5000) handle is live
  wsState,        \* "none", "connecting", "open", "closed"
  inflight,       \* pending fetch() promises: set of [id, kind, arg]
  nextReq,        \* number of fetch() calls issued so far
  pushSeq,        \* number of push messages delivered so far
  trafficSeq,     \* number of traffic_update messages delivered so far
  statsFrom,      \* provenance: the update that last wrote stats
  serversFrom,    \* provenance: the update that last wrote servers
  lastPoll,       \* provenance: issue number of the /stats poll applied last
  prevServers,    \* history: the entity list before the update that last wrote servers
  lastApplied,    \* history: the payload of the update that last called setStats
  lateSettled,    \* history: the requests that settled after the cleanup ran
  \* ---- NetworkTopology.jsx
  topoMounted,    \* the component is mounted
  topoServers,    \* servers prop
  traffic,        \* useState([]): active traffic events [id, from, to]
  intervalDue,    \* next deadline of the live setInterval, or NoTimer
  timers,         \* pending setTimeout removal callbacks, in registration order
  gen,            \* number of times the animation effect was (re)started
  now,            \* Date.now(), ms since the component was constructed
  created,        \* history: creation times of all traffic events so far
  nonEmptySince,  \* history: when the servers prop last became non-empty
  \* ---- NetworkTopology.jsx, the layout
  dimensions,     \* useState({width: 0, height: 0})
  lyServers,      \* servers prop of the render
  positions,      \* what the last render got from calculatePositions()
  lyRenders,      \* number of renders so far
  \* ---- ServerMetrics.jsx
  smServers,      \* servers prop
  metricsHistory, \* useState({}): server name -> sequence of samples
  smNow,          \* Date.now()
  smSteps,        \* number of prop changes so far
  smWarmUp,       \* number of regular polls the session starts with
  smView,         \* what the last render shows: per server card, status and trends
  smLog,          \* history: every servers prop the effect has run on, in order
  \* ---- LoadBalancerStats.jsx
  lbMounted,      \* mounted (App renders it only while stats is truthy)
  lbStats,        \* stats prop
  algorithmHistory, \* useState([])
  lbNow,          \* Date.now()
  lbSteps,        \* number of prop changes so far
  performanceMetrics, \* useState({requestsPerSecond: [], responseTimes: [], errorRates: []})
  perfTicks,      \* number of callbacks of the one-second interval so far
  perfWarmUp,     \* number of interval callbacks the session starts with
  lbSeen,         \* history: the last two cumulative snapshots received since the mount
  lbView,         \* what the last render shows of calculateAlgorithmPerformance()
  \* ---- TrafficFlow.jsx
  tfData,         \* data prop: the parent's traffic log
  tfLog,          \* useState([]): trafficData, the local log
  tfMock,         \* TRUE while the setInterval of the mock traffic effect is live
  tfNow,          \* Date.now()
  tfSteps,        \* number of changes of the data prop so far
  tfWarmUp,       \* number of regular traffic updates the session starts with
  tfView,         \* what the last render shows: calculateStats() and the chart
  \* ---- utils/api.js, createWebSocket
  apiLog,         \* history: the texts of the message events of the socket, in order
  apiCalls,       \* history: the arguments the onMessage callback was called with
  \* ---- App.jsx, startTrafficSimulation
  isSimulating,   \* useState(false)
  simPc,          \* where the loop is: "idle", "request" (awaiting sendTestRequest), "pause"
  simI,           \* the loop variable i
  simInflight,    \* test requests of the simulation that are pending
  simSent,        \* test requests the current simulation has sent
  simFailed,      \* how many of them failed
  simPolls,       \* fetchStats() calls the current simulation has made
  simRuns         \* simulations started so far

appVars == <<phase, stats, servers, algorithm, trafficData, pollTimer, wsState,
             inflight, nextReq, pushSeq, trafficSeq, statsFrom, serversFrom, lastPoll,
             prevServers, lastApplied, lateSettled>>
topoVars == <<topoMounted, topoServers, traffic, intervalDue, timers, gen, now,
              created, nonEmptySince>>
layoutVars == <<dimensions, lyServers, positions, lyRenders>>
smVars == <<smServers, metricsHistory, smNow, smSteps, smWarmUp, smView, smLog>>
lbVars == <<lbMounted, lbStats, algorithmHistory, lbNow, lbSteps, performanceMetrics,
            perfTicks, perfWarmUp, lbSeen, lbView>>
tfVars == <<tfData, tfLog, tfMock, tfNow, tfSteps, tfWarmUp, tfView>>
apiVars == <<apiLog, apiCalls>>
simVars == <<isSimulating, simPc, simI, simInflight, simSent, simFailed, simPolls, simRuns>>
vars == <<appVars, topoVars, layoutVars, smVars, lbVars, tfVars, apiVars, simVars>>

\* a step of one component leaves the state of the others alone
AppStep == UNCHANGED <<topoVars, layoutVars, smVars, lbVars, tfVars, apiVars, simVars>>
TopoStep == UNCHANGED <<appVars, layoutVars, smVars, lbVars, tfVars, apiVars, simVars>>
LayoutStep == UNCHANGED <<appVars, topoVars, smVars, lbVars, tfVars, apiVars, simVars>>
SmStep == UNCHANGED <<appVars, topoVars, layoutVars, lbVars, tfVars, apiVars, simVars>>
LbStep == UNCHANGED <<appVars, topoVars, layoutVars, smVars, tfVars, apiVars, simVars>>
TfStep == UNCHANGED <<appVars, topoVars, layoutVars, smVars, lbVars, apiVars, simVars>>
ApiStep == UNCHANGED <<appVars, topoVars, layoutVars, smVars, lbVars, tfVars, simVars>>
SimStep == UNCHANGED <<appVars, topoVars, layoutVars, smVars, lbVars, tfVars, apiVars>>

(***************************************************************************)
(* Bounds of the model.                                                    *)
(***************************************************************************)
\* fetch() calls issued in one run of Spec
MaxRequests == 3
\* push messages delivered in one run of Spec
MaxPush == 2
\* traffic_update messages delivered in one run of SpecPush
MaxTraffic == 52
\* SpecTopology: the clock stops here, and so many changes of the servers prop
MaxTime == 3000
MaxRestarts == 3
\* SpecMetrics: changes of the servers prop after the warm-up
MaxSmSteps == 3
\* SpecStatus: changes of the servers prop
MaxStatusSteps == 2
\* SpecLB: changes of the stats prop, and seconds the clock runs
MaxLbSteps == 4
MaxLbSeconds == 3
\* SpecPerf: callbacks of the one-second interval after the warm-up
MaxPerfTicks == 3
\* SpecLayout: renders of the topology
MaxRenders == 5
\* SpecTraffic: changes of the data prop after the warm-up, and callbacks of
\* the mock interval
MaxTfSteps == 3
MaxMockTicks == 3
\* SpecParse: message events of the socket of createWebSocket
MaxApiMessages == 2
\* SpecSim: simulations started
MaxSimRuns == 2

(***************************************************************************)
(* JavaScript values.                                                      *)
(***************************************************************************)
\* null, the initial value of stats and a possible JSON body
NullStats == [tag |-> "null"]

\* entity snapshots as the backend reports them
Srv(n, cpu) == [name |-> n, cpu_usage |-> cpu]

\* JSON bodies GET /stats can answer with.  BodyA and BodyB are regular
\* answers (s2 has left the fleet in BodyB); BodyErr is the JSON body of an
\* error answer: it has no server_stats, and fetch() resolves for it just as
\* for a 200.
BodyA == [tag |-> "data", total_requests |-> 100, healthy_servers |-> 2, total_servers |-> 2,
          algorithm |-> "round_robin",
          server_stats |-> <<Srv("s1", 95), Srv("s2", 10)>>]
BodyB == [tag |-> "data", total_requests |-> 300, healthy_servers |-> 1, total_servers |-> 1,
          algorithm |-> "least_connections",
          server_stats |-> <<Srv("s1", 50)>>]
BodyErr == [tag |-> "error", error |-> "internal"]

\* what a fetch() + response.json() can end with: a rejected promise
\* (network error, or a body that is not JSON) or a parsed body
Failed == [tag |-> "failed"]
StatsOutcomes == {Failed, NullStats, BodyErr, BodyA, BodyB}

\* JSON bodies GET /servers can answer with
ListA == [tag |-> "data", servers |-> <<Srv("s1", 95), Srv("s2", 10)>>]
ListB == [tag |-> "data", servers |-> <<Srv("s2", 20)>>]
ServersOutcomes == {Failed, BodyErr, ListA, ListB}

\* payloads of stats_update push messages.  PushA and PushB are the aggregate,
\* without entity list.
PushA == [tag |-> "data", total_requests |-> 200, healthy_servers |-> 2, total_servers |-> 3,
          algorithm |-> "round_robin"]
PushB == [tag |-> "data", total_requests |-> 50, healthy_servers |-> 0, total_servers |-> 1,
          algorithm |-> "ip_hash"]
\* a stats_update whose payload has the shape of a /stats body, entity list
\* included
PushC == [tag |-> "data", total_requests |-> 120, healthy_servers |-> 1, total_servers |-> 1,
          algorithm |-> "round_robin",
          server_stats |-> <<Srv("s3", 40)>>]
StatsPayloads == {PushA, PushB, PushC}

Algorithms == {"round_robin", "least_connections"}

\* provenance of a piece of state: which update wrote it
NoUpdate == [chan |-> "none", n |-> 0]
Upd(c, k) == [chan |-> c, n |-> k]

\* data.server_stats || [] and data.servers || []
ServerStatsOrEmpty(data) ==
  IF "server_stats" \in DOMAIN data THEN data.server_stats ELSE <<>>
ServersOrEmpty(data) ==
  IF "servers" \in DOMAIN data THEN data.servers ELSE <<>>

\* a merge that keeps the entities the new list does not name
KeepAbsent(prev, list) ==
  list \o SelectSeq(prev, LAMBDA e : \A i \in 1..Len(list) : list[i].name # e.name)
SetServersMerging(prev, data) == KeepAbsent(prev, ServerStatsOrEmpty(data))

\* setServers(data.server_stats || []): the new value of servers, whatever
\* the previous one was
SetServers(prev, data) == ServerStatsOrEmpty(data)

\* a setStats that keeps the stats it already has
SetStatsFirstWins(prev, data) == IF prev = NullStats THEN data ELSE prev

\* setStats(data): the new value of stats, whatever the previous one was
SetStats(prev, data) == data

\* prev.slice(-k): the last k elements (k >= 1)
SliceLast(s, k) == IF Len(s) <= k THEN s ELSE SubSeq(s, Len(s) - k + 1, Len(s))

(***************************************************************************)
(* App.jsx                                                                 *)
(***************************************************************************)
Req(i, k, a) == [id |-> i, kind |-> k, arg |-> a]

\* a call of fetchStats(): fetch('/stats') is issued, the rest awaits it
IssueStats(pending, n) == pending \cup {Req(n + 1, "stats", "-")}

AppInit ==
  /\ phase = "init"
  /\ stats = NullStats
  /\ servers = <<>>
  /\ algorithm = "round_robin"
  /\ trafficData = <<>>
  /\ pollTimer = FALSE
  /\ wsState = "none"
  /\ inflight = {}
  /\ nextReq = 0
  /\ pushSeq = 0
  /\ trafficSeq = 0
  /\ statsFrom = NoUpdate
  /\ serversFrom = NoUpdate
  /\ lastPoll = 0
  /\ prevServers = <<>>
  /\ lastApplied = NullStats
  /\ lateSettled = {}

\* useEffect(..., []): fetchStats(), fetchServers(), new WebSocket, setInterval
Mount ==
  /\ AppStep
  /\ UNCHANGED lateSettled
  /\ phase = "init"
  /\ phase' = "mounted"
  /\ inflight' = {Req(1, "stats", "-"), Req(2, "servers", "-")}
  /\ nextReq' = 2
  /\ wsState' = "connecting"
  /\ pollTimer' = TRUE
  /\ UNCHANGED <<stats, servers, algorithm, trafficData, pushSeq, trafficSeq,
                 statsFrom, serversFrom, lastPoll, prevServers,
                 lastApplied>>

\* a cleanup that closes the channel and leaves the interval running
UnmountKeepsTimer ==
  /\ AppStep
  /\ UNCHANGED lateSettled
  /\ phase = "mounted"
  /\ phase' = "closed"
  /\ wsState' = "closed"
  /\ UNCHANGED <<stats, servers, algorithm, trafficData, pollTimer, inflight, nextReq, pushSeq,
                 trafficSeq, statsFrom, serversFrom, lastPoll, prevServers,
                 lastApplied>>

\* the effect's cleanup: clearInterval(interval); wsRef.current.close()
Unmount ==
  /\ AppStep
  /\ UNCHANGED lateSettled
  /\ phase = "mounted"
  /\ phase' = "closed"
  /\ pollTimer' = FALSE
  /\ wsState' = "closed"
  /\ UNCHANGED <<stats, servers, algorithm, trafficData, inflight, nextReq, pushSeq,
                 trafficSeq, statsFrom, serversFrom, lastPoll, prevServers,
                 lastApplied>>

\* ws.onopen
WsOpen ==
  /\ AppStep
  /\ UNCHANGED lateSettled
  /\ wsState = "connecting"
  /\ wsState' = "open"
  /\ UNCHANGED <<phase, stats, servers, algorithm, trafficData, pollTimer, inflight,
                 nextReq, pushSeq, trafficSeq, statsFrom, serversFrom, lastPoll, prevServers,
                 lastApplied>>

\* the connection drops; nothing in App.jsx reconnects
WsDrop ==
  /\ AppStep
  /\ UNCHANGED lateSettled
  /\ wsState \in {"connecting", "open"}
  /\ wsState' = "closed"
  /\ UNCHANGED <<phase, stats, servers, algorithm, trafficData, pollTimer, inflight,
                 nextReq, pushSeq, trafficSeq, statsFrom, serversFrom, lastPoll, prevServers,
                 lastApplied>>

\* fetchStats() up to its first await, called from the interval or the
\* Refresh Stats button
FetchStats ==
  /\ AppStep
  /\ UNCHANGED lateSettled
  /\ nextReq < MaxRequests
  /\ inflight' = IssueStats(inflight, nextReq)
  /\ nextReq' = nextReq + 1
  /\ UNCHANGED <<phase, stats, servers, algorithm, trafficData, pollTimer, wsState,
                 pushSeq, trafficSeq, statsFrom, serversFrom, lastPoll, prevServers,
                 lastApplied>>

\* setInterval(fetchStats, 5000) fires: only a live interval handle fires
PollTick == pollTimer /\ FetchStats

\* onClick={fetchStats} of the Refresh Stats button, rendered while mounted
RefreshClick == phase = "mounted" /\ FetchStats

\* fetchStats after its awaits: setStats(data); setServers(data.server_stats || [])
\* data = null: setStats(null) runs, data.server_stats throws and is caught
\* a rejected fetch or json(): the catch logs, no state is set
\* The two setters run in one continuation and are rendered together.
StatsResponse(r, out) ==
  /\ AppStep
  /\ UNCHANGED lateSettled
  /\ phase = "mounted"
  /\ r \in inflight /\ r.kind = "stats"
  /\ inflight' = inflight \ {r}
  /\ CASE out.tag = "failed" ->
            UNCHANGED <<stats, servers, statsFrom, serversFrom, lastPoll, prevServers,
                        lastApplied>>
       [] out.tag = "null" ->
            /\ stats' = SetStats(stats, out)
            /\ lastApplied' = out
            /\ statsFrom' = Upd("poll", r.id)
            /\ lastPoll' = r.id
            /\ UNCHANGED <<servers, serversFrom, prevServers>>
       [] OTHER ->
            /\ stats' = SetStats(stats, out)
            /\ lastApplied' = out
            /\ servers' = SetServers(servers, out)
            /\ statsFrom' = Upd("poll", r.id)
            /\ serversFrom' = Upd("poll", r.id)
            /\ lastPoll' = r.id
            /\ prevServers' = servers
  /\ UNCHANGED <<phase, algorithm, trafficData, pollTimer, wsState, nextReq, pushSeq, trafficSeq>>

\* fetchServers after its awaits: setServers(data.servers || [])
ServersResponse(r, out) ==
  /\ AppStep
  /\ UNCHANGED lateSettled
  /\ phase = "mounted"
  /\ r \in inflight /\ r.kind = "servers"
  /\ inflight' = inflight \ {r}
  /\ IF out.tag = "failed"
     THEN UNCHANGED <<servers, serversFrom, prevServers>>
     ELSE /\ servers' = ServersOrEmpty(out)
          /\ serversFrom' = Upd("servers", r.id)
          /\ prevServers' = servers
  /\ UNCHANGED <<phase, stats, algorithm, trafficData, pollTimer, wsState, nextReq, pushSeq,
                 trafficSeq, statsFrom, lastPoll, lastApplied>>

\* a late poll response that is applied as if the component were mounted
LateResponseApplies(r, ok) ==
  /\ AppStep
  /\ phase = "closed"
  /\ r \in inflight
  /\ lateSettled' = lateSettled \cup {r}
  /\ inflight' = inflight \ {r}
  /\ stats' = IF ok /\ r.kind = "stats" THEN BodyB ELSE stats
  /\ servers' = IF ok /\ r.kind = "stats" THEN BodyB.server_stats ELSE servers
  /\ UNCHANGED <<phase, algorithm, trafficData, pollTimer, wsState, nextReq,
                 pushSeq, trafficSeq, statsFrom, serversFrom, lastPoll, prevServers,
                 lastApplied>>

\* a promise settles after the component was unmounted: React drops the
\* state updates of an unmounted component; the continuations of
\* changeAlgorithm and sendTestRequest still call fetchStats()
LateResponse(r, ok) ==
  /\ AppStep
  /\ lateSettled' = lateSettled \cup {r}
  /\ phase = "closed"
  /\ r \in inflight
  /\ IF ok /\ r.kind \in {"algorithm", "request"}
     THEN /\ inflight' = IssueStats(inflight \ {r}, nextReq)
          /\ nextReq' = nextReq + 1
     ELSE /\ inflight' = inflight \ {r}
          /\ UNCHANGED nextReq
  /\ UNCHANGED <<phase, stats, servers, algorithm, trafficData, pollTimer, wsState,
                 pushSeq, trafficSeq, statsFrom, serversFrom, lastPoll, prevServers,
                 lastApplied>>

\* changeAlgorithm(newAlgo) up to its first await
ChangeAlgorithm(a) ==
  /\ AppStep
  /\ UNCHANGED lateSettled
  /\ phase = "mounted"
  /\ nextReq < MaxRequests
  /\ inflight' = inflight \cup {Req(nextReq + 1, "algorithm", a)}
  /\ nextReq' = nextReq + 1
  /\ UNCHANGED <<phase, stats, servers, algorithm, trafficData, pollTimer, wsState,
                 pushSeq, trafficSeq, statsFrom, serversFrom, lastPoll, prevServers,
                 lastApplied>>

\* a continuation that sets the label whatever the backend answered
AlgorithmResponseOptimistic(r, success) ==
  /\ AppStep
  /\ UNCHANGED lateSettled
  /\ phase = "mounted"
  /\ r \in inflight /\ r.kind = "algorithm"
  /\ algorithm' = r.arg
  /\ IF success
     THEN /\ inflight' = IssueStats(inflight \ {r}, nextReq)
          /\ nextReq' = nextReq + 1
     ELSE /\ inflight' = inflight \ {r}
          /\ UNCHANGED nextReq
  /\ UNCHANGED <<phase, stats, servers, trafficData, pollTimer, wsState, pushSeq, trafficSeq,
                 statsFrom, serversFrom, lastPoll, prevServers, lastApplied>>

\* a continuation that refreshes the stats whatever the backend answered
AlgorithmResponsePollsAnyway(r, success) ==
  /\ AppStep
  /\ UNCHANGED lateSettled
  /\ phase = "mounted"
  /\ r \in inflight /\ r.kind = "algorithm"
  /\ algorithm' = IF success THEN r.arg ELSE algorithm
  /\ inflight' = IssueStats(inflight \ {r}, nextReq)
  /\ nextReq' = nextReq + 1
  /\ UNCHANGED <<phase, stats, servers, trafficData, pollTimer, wsState, pushSeq, trafficSeq,
                 statsFrom, serversFrom, lastPoll, prevServers, lastApplied>>

\* changeAlgorithm after its awaits: if (data.success) { setAlgorithm; fetchStats() }
\* success is FALSE for a body without a truthy success and for a rejected
\* fetch or json(), which the catch logs
AlgorithmResponse(r, success) ==
  /\ AppStep
  /\ UNCHANGED lateSettled
  /\ phase = "mounted"
  /\ r \in inflight /\ r.kind = "algorithm"
  /\ IF success
     THEN /\ algorithm' = r.arg
          /\ inflight' = IssueStats(inflight \ {r}, nextReq)
          /\ nextReq' = nextReq + 1
     ELSE /\ inflight' = inflight \ {r}
          /\ UNCHANGED <<algorithm, nextReq>>
  /\ UNCHANGED <<phase, stats, servers, trafficData, pollTimer, wsState, pushSeq, trafficSeq,
                 statsFrom, serversFrom, lastPoll, prevServers,
                 lastApplied>>

\* sendTestRequest() up to its first await
SendTestRequest ==
  /\ AppStep
  /\ UNCHANGED lateSettled
  /\ phase = "mounted"
  /\ nextReq < MaxRequests
  /\ inflight' = inflight \cup {Req(nextReq + 1, "request", "-")}
  /\ nextReq' = nextReq + 1
  /\ UNCHANGED <<phase, stats, servers, algorithm, trafficData, pollTimer, wsState,
                 pushSeq, trafficSeq, statsFrom, serversFrom, lastPoll, prevServers,
                 lastApplied>>

\* sendTestRequest after its awaits: fetchStats() unless fetch or json() threw
RequestResponse(r, ok) ==
  /\ AppStep
  /\ UNCHANGED lateSettled
  /\ phase = "mounted"
  /\ r \in inflight /\ r.kind = "request"
  /\ IF ok
     THEN /\ inflight' = IssueStats(inflight \ {r}, nextReq)
          /\ nextReq' = nextReq + 1
     ELSE /\ inflight' = inflight \ {r}
          /\ UNCHANGED nextReq
  /\ UNCHANGED <<phase, stats, servers, algorithm, trafficData, pollTimer, wsState, pushSeq,
                 trafficSeq, statsFrom, serversFrom, lastPoll, prevServers,
                 lastApplied>>

\* event.data of message events: three JSON texts, a JSON text cut off in
\* transit, and a text that is not JSON
MsgStatsA == "{\"type\":\"stats_update\",\"payload\":{\"total_requests\":200}}"
MsgStatsC == "{\"type\":\"stats_update\",\"payload\":{\"total_requests\":120}}"
MsgTraffic == "{\"type\":\"traffic_update\",\"payload\":{\"requests\":10}}"
MsgPing == "{\"type\":\"ping\"}"
MsgNull == "null"
MsgCutOff == "{\"type\":\"stats_update\",\"payl"
MsgNotJson == "<html>502 Bad Gateway</html>"
ParseableTexts == {MsgStatsA, MsgStatsC, MsgTraffic}
UnparseableTexts == {MsgCutOff, MsgNotJson}
Texts == ParseableTexts \cup UnparseableTexts

Parsed(v) == [thrown |-> FALSE, value |-> v]
Thrown == [thrown |-> TRUE]

\* a parser that reads every text it does not understand as an empty
\* stats_update
JsonParseLenient(text) ==
  CASE text = MsgStatsA -> Parsed([type |-> "stats_update", payload |-> PushA])
    [] text = MsgStatsC -> Parsed([type |-> "stats_update", payload |-> PushC])
    [] text = MsgTraffic -> Parsed([type |-> "traffic_update", payload |-> [requests |-> 10]])
    [] OTHER -> Parsed([type |-> "stats_update", payload |-> NullStats])

\* JSON.parse(event.data): the value of a JSON text, a SyntaxError otherwise.
\* The stats payloads stand for the full bodies PushA and PushC.
JsonParse(text) ==
  CASE text = MsgStatsA -> Parsed([type |-> "stats_update", payload |-> PushA])
    [] text = MsgStatsC -> Parsed([type |-> "stats_update", payload |-> PushC])
    [] text = MsgTraffic -> Parsed([type |-> "traffic_update", payload |-> [requests |-> 10]])
    [] text = MsgPing -> Parsed([type |-> "ping"])
    [] text = MsgNull -> Parsed(NullStats)
    [] OTHER -> Thrown

\* ws.onmessage, data.type === 'stats_update': setStats(data.payload)
WsStatsUpdate(payload) ==
  /\ AppStep
  /\ UNCHANGED lateSettled
  /\ wsState = "open"
  /\ stats' = SetStats(stats, payload)
  /\ lastApplied' = payload
  /\ statsFrom' = Upd("push", pushSeq + 1)
  /\ pushSeq' = pushSeq + 1
  /\ UNCHANGED <<phase, servers, algorithm, trafficData, pollTimer, wsState, inflight, nextReq,
                 trafficSeq, serversFrom, lastPoll, prevServers>>

\* ws.onmessage, data.type === 'traffic_update':
\* setTrafficData(prev => [...prev.slice(-50), data.payload]).  The payload of
\* the k-th traffic_update is modelled by k.
WsTrafficUpdate ==
  /\ AppStep
  /\ UNCHANGED lateSettled
  /\ wsState = "open"
  /\ trafficData' = Append(SliceLast(trafficData, 50), trafficSeq + 1)
  /\ trafficSeq' = trafficSeq + 1
  /\ pushSeq' = pushSeq + 1
  /\ UNCHANGED <<phase, stats, servers, algorithm, pollTimer, wsState, inflight, nextReq,
                 statsFrom, serversFrom, lastPoll, prevServers,
                 lastApplied>>

\* ws.onmessage for a message of another type, or one JSON.parse throws on:
\* no state is set
WsIgnored ==
  /\ AppStep
  /\ UNCHANGED lateSettled
  /\ wsState = "open"
  /\ pushSeq' = pushSeq + 1
  /\ UNCHANGED <<phase, stats, servers, algorithm, trafficData, pollTimer, wsState, inflight,
                 nextReq, trafficSeq, statsFrom, serversFrom, lastPoll, prevServers,
                 lastApplied>>

\* ws.onmessage for an event about one entity, {type: 'server_update',
\* payload: {name: n}}: the type matches neither branch, so it is handled as
\* any message of another type is
WsEntityEvent(n) == WsIgnored

\* ws.onmessage(event) as a whole: JSON.parse is not guarded, so a
\* SyntaxError, or the TypeError of null.type, leaves the handler before any
\* setter runs; the handler stays installed
OnMessage(text) ==
  LET data == JsonParse(text)
  IN IF data.thrown THEN WsIgnored
     ELSE IF "type" \notin DOMAIN data.value THEN WsIgnored
     ELSE IF data.value.type = "stats_update" THEN WsStatsUpdate(data.value.payload)
     ELSE IF data.value.type = "traffic_update" THEN WsTrafficUpdate
     ELSE WsIgnored

\* the environment's choices: which pending promise settles and with what,
\* which message the push channel delivers
StatsSettles == \E r \in inflight, out \in StatsOutcomes : StatsResponse(r, out)
ServersSettles == \E r \in inflight, out \in ServersOutcomes : ServersResponse(r, out)
SettlesAfterClose == \E r \in inflight, ok \in BOOLEAN : LateResponse(r, ok)
AlgorithmSelected == \E a \in Algorithms : ChangeAlgorithm(a)
AlgorithmSettles == \E r \in inflight, s \in BOOLEAN : AlgorithmResponse(r, s)
RequestSettles == \E r \in inflight, ok \in BOOLEAN : RequestResponse(r, ok)
PushStats == pushSeq < MaxPush /\ \E p \in StatsPayloads : WsStatsUpdate(p)
PushTraffic == pushSeq < MaxPush /\ WsTrafficUpdate
PushOther == pushSeq < MaxPush /\ WsIgnored
PushTrafficStream == trafficSeq < MaxTraffic /\ WsTrafficUpdate

AppNext ==
  \/ Mount
  \/ Unmount
  \/ WsOpen
  \/ WsDrop
  \/ PollTick
  \/ RefreshClick
  \/ StatsSettles
  \/ ServersSettles
  \/ SettlesAfterClose
  \/ AlgorithmSelected
  \/ AlgorithmSettles
  \/ SendTestRequest
  \/ RequestSettles
  \/ PushStats
  \/ PushTraffic
  \/ PushOther

\* a session in which the user only selects algorithms
CommandsNext ==
  \/ Mount
  \/ StatsSettles
  \/ ServersSettles
  \/ AlgorithmSelected
  \/ AlgorithmSettles

(***************************************************************************)
(* App.jsx: startTrafficSimulation, in a session that stays open.          *)
(***************************************************************************)
\* for (let i = 0; i < 10; i++)
SimRequests == 10

SimInit ==
  /\ isSimulating = FALSE
  /\ simPc = "idle"
  /\ simI = 0
  /\ simInflight = 0
  /\ simSent = 0
  /\ simFailed = 0
  /\ simPolls = 0
  /\ simRuns = 0

\* onClick of the Simulate Traffic button, disabled while isSimulating:
\* setIsSimulating(true), i = 0, sendTestRequest() up to its first await
StartTrafficSimulation ==
  /\ SimStep
  /\ ~isSimulating
  /\ simRuns < MaxSimRuns
  /\ simRuns' = simRuns + 1
  /\ isSimulating' = TRUE
  /\ simI' = 0
  /\ simPc' = "request"
  /\ simInflight' = simInflight + 1
  /\ simSent' = 1
  /\ simFailed' = 0
  /\ simPolls' = 0

\* a simulation that gives up at the first request that fails
SimRequestDoneAborting(ok) ==
  /\ SimStep
  /\ simPc = "request"
  /\ simInflight' = simInflight - 1
  /\ simPolls' = IF ok THEN simPolls + 1 ELSE simPolls
  /\ simFailed' = IF ok THEN simFailed ELSE simFailed + 1
  /\ simPc' = IF ok THEN "pause" ELSE "idle"
  /\ isSimulating' = ok
  /\ UNCHANGED <<simI, simSent, simRuns>>

\* the awaited sendTestRequest() completes: after its awaits it calls
\* fetchStats(), or its catch logs the error; it returns either way and the
\* loop goes on to await the 100 ms timeout
SimRequestDone(ok) ==
  /\ SimStep
  /\ simPc = "request"
  /\ simInflight' = simInflight - 1
  /\ simPolls' = IF ok THEN simPolls + 1 ELSE simPolls
  /\ simFailed' = IF ok THEN simFailed ELSE simFailed + 1
  /\ simPc' = "pause"
  /\ UNCHANGED <<isSimulating, simI, simSent, simRuns>>

\* the 100 ms timeout fires: i++, then the next sendTestRequest() up to its
\* first await, or, when i has reached 10, setIsSimulating(false)
SimPauseEnds ==
  /\ SimStep
  /\ simPc = "pause"
  /\ simI' = simI + 1
  /\ IF simI + 1 < SimRequests
     THEN /\ simPc' = "request"
          /\ simInflight' = simInflight + 1
          /\ simSent' = simSent + 1
          /\ UNCHANGED isSimulating
     ELSE /\ simPc' = "idle"
          /\ isSimulating' = FALSE
          /\ UNCHANGED <<simInflight, simSent>>
  /\ UNCHANGED <<simFailed, simPolls, simRuns>>

SimRequestSettles == \E ok \in BOOLEAN : SimRequestDone(ok)

SimNext ==
  \/ StartTrafficSimulation
  \/ SimRequestSettles
  \/ SimPauseEnds

\* the push channel delivers a text
PushMessage == pushSeq < MaxPush /\ \E text \in Texts : OnMessage(text)

(***************************************************************************)
(* utils/api.js: createWebSocket(url).onMessage(callback)                  *)
(***************************************************************************)
ApiInit ==
  /\ apiLog = <<>>
  /\ apiCalls = <<>>

\* the 'message' listener: try { callback(JSON.parse(event.data)) } catch
\* { console.error(...) }
ApiOnMessage(text) ==
  /\ ApiStep
  /\ Len(apiLog) < MaxApiMessages
  /\ apiLog' = Append(apiLog, text)
  /\ apiCalls' =
       IF JsonParse(text).thrown THEN apiCalls
       ELSE Append(apiCalls, JsonParse(text).value)

ApiMessage == \E text \in Texts : ApiOnMessage(text)

\* the two message handlers of the client, each on its socket
ParseNext ==
  \/ Mount
  \/ WsOpen
  \/ PushMessage
  \/ ApiMessage

PushNext ==
  \/ Mount
  \/ WsOpen
  \/ PushTrafficStream
  \/ PushStats

(***************************************************************************)
(* NetworkTopology.jsx: the traffic animation effect.                      *)
(* Timers are punctual: the clock does not pass the deadline of a pending  *)
(* timer, and callbacks due at the same instant run in either order.       *)
(***************************************************************************)
\* setInterval(..., 500) and setTimeout(..., 2000)
TickPeriod == 500
TTL == 2000
\* the clock advances in half tick periods
TimeStep == TickPeriod \div 2
\* intervalDue when no interval is live
NoTimer == 0 - 1

\* servers props the parent passes down
TopoLists == {<<>>, <<Srv("s1", 95)>>, <<Srv("s1", 50), Srv("s2", 10)>>}

\* a removal scheduled after one tick period instead of the time-to-live
RemovalDueShort(t) == t + TickPeriod

\* setTimeout(() => ..., 2000) called at time t
RemovalDue(t) == t + TTL

\* prev.filter(t => t.id !== id)
RemoveEvent(tr, id) == SelectSeq(tr, LAMBDA t : t.id # id)

\* setInterval(..., 500) called at time t
StartInterval(t) == t + TickPeriod

TopoInit ==
  /\ topoMounted = TRUE
  /\ topoServers = <<>>
  /\ traffic = <<>>
  /\ intervalDue = StartInterval(0)
  /\ timers = <<>>
  /\ gen = 1
  /\ now = 0
  /\ created = {}
  /\ nonEmptySince = 0

\* the parent re-renders with a new servers array: the effect's cleanup
\* (clearInterval) runs, then the effect again (setInterval)
ServersChange(list) ==
  /\ TopoStep
  /\ topoMounted
  /\ gen <= MaxRestarts
  /\ topoServers' = list
  /\ intervalDue' = StartInterval(now)
  /\ gen' = gen + 1
  /\ nonEmptySince' = IF Len(list) > 0 /\ Len(topoServers) = 0 THEN now ELSE nonEmptySince
  /\ UNCHANGED <<topoMounted, traffic, timers, now, created>>

\* a target that does not look at the servers prop
PickTargetFixed(list, i) == "s2"

\* servers[Math.floor(Math.random() * servers.length)].name, i the index drawn
PickTarget(list, i) == list[i].name

\* the interval callback
Tick ==
  /\ TopoStep
  /\ topoMounted
  /\ intervalDue # NoTimer
  /\ intervalDue <= now
  /\ intervalDue' = intervalDue + TickPeriod
  /\ IF Len(topoServers) > 0
     THEN \E i \in 1..Len(topoServers) :
            /\ traffic' = Append(traffic, [id |-> now, from |-> "lb",
                                           to |-> PickTarget(topoServers, i)])
            /\ timers' = Append(timers, [id |-> now, due |-> RemovalDue(now), gen |-> gen])
            /\ created' = created \cup {now}
     ELSE UNCHANGED <<traffic, timers, created>>
  /\ UNCHANGED <<topoMounted, topoServers, gen, now, nonEmptySince>>

\* a removal timeout fires; timeouts of equal delay fire in registration
\* order.  After the unmount the state update is dropped.
RemovalFire ==
  /\ TopoStep
  /\ timers # <<>>
  /\ timers[1].due <= now
  /\ traffic' = IF topoMounted THEN RemoveEvent(traffic, timers[1].id) ELSE traffic
  /\ timers' = Tail(timers)
  /\ UNCHANGED <<topoMounted, topoServers, intervalDue, gen, now, created, nonEmptySince>>

\* time passes while no callback is due
Advance ==
  /\ TopoStep
  /\ (intervalDue # NoTimer) => (intervalDue > now)
  /\ (timers # <<>>) => (timers[1].due > now)
  /\ now + TimeStep <= MaxTime
  /\ now' = now + TimeStep
  /\ UNCHANGED <<topoMounted, topoServers, traffic, intervalDue, timers, gen, created,
                 nonEmptySince>>

\* unmount: the effect's cleanup, clearInterval(interval)
TopoUnmount ==
  /\ TopoStep
  /\ topoMounted
  /\ topoMounted' = FALSE
  /\ intervalDue' = NoTimer
  /\ UNCHANGED <<topoServers, traffic, timers, gen, now, created, nonEmptySince>>

ServersPropChanges == \E list \in TopoLists : ServersChange(list)

TopoNext ==
  \/ ServersPropChanges
  \/ Tick
  \/ RemovalFire
  \/ Advance
  \/ TopoUnmount

(***************************************************************************)
(* NetworkTopology.jsx: the layout.                                        *)
(* Coordinates are in thousandths of a pixel.  The angle of server index   *)
(* of n is index * 2 * PI / n; the lists of the model have at most four    *)
(* servers, so every angle is a multiple of 30 degrees.                    *)
(***************************************************************************)
\* 1000 * Math.cos and 1000 * Math.sin of k * 30 degrees
CosMilli(k) ==
  CASE k % 12 = 0 -> 1000
    [] k % 12 \in {1, 11} -> 866
    [] k % 12 \in {2, 10} -> 500
    [] k % 12 \in {3, 9} -> 0
    [] k % 12 \in {4, 8} -> -500
    [] k % 12 \in {5, 7} -> -866
    [] OTHER -> -1000
SinMilli(k) == CosMilli(k + 9)

\* (index * 2 * Math.PI) / servers.length, in steps of 30 degrees
AngleOf(index, n) == (index * 12) \div n

MinOf(a, b) == IF a < b THEN a ELSE b

\* a radius taken from the width alone
RadiusOfWidth(dim) == 300 * dim.width

\* Math.min(dimensions.width, dimensions.height) * 0.3
Radius(dim) == 300 * MinOf(dim.width, dim.height)

\* dimensions.width / 2 and dimensions.height / 2
CenterX(dim) == 500 * dim.width
CenterY(dim) == 500 * dim.height

\* positions.lb = { x: centerX, y: centerY, type: 'lb' }
HubNode(dim) == [x |-> CenterX(dim), y |-> CenterY(dim), type |-> "lb"]

\* { x, y, type: 'server', ...server }: the fields of the record are spread
\* last, so a field of the record wins over a computed one of the same name
ServerNode(server, index, n, dim) ==
  server @@ [x |-> CenterX(dim) + (Radius(dim) * CosMilli(AngleOf(index, n))) \div 1000,
             y |-> CenterY(dim) + (Radius(dim) * SinMilli(AngleOf(index, n))) \div 1000,
             type |-> "server"]

\* the property key server.name: a record without a name is stored under
\* the key 'undefined'
KeyOf(server) == IF "name" \in DOMAIN server THEN server.name ELSE "undefined"

\* calculatePositions(): the hub first, then the servers in list order, each
\* assignment replacing what the key held before
CalculatePositions(list, dim) ==
  LET n == Len(list)
      put[i \in 0..n] ==
        IF i = 0 THEN [k \in {"lb"} |-> HubNode(dim)]
        ELSE (KeyOf(list[i]) :> ServerNode(list[i], i - 1, n, dim)) @@ put[i - 1]
  IN put[n]

\* container sizes (clientWidth, clientHeight), in pixels
Viewports ==
  { [width |-> 0, height |-> 0], [width |-> 300, height |-> 300],
    [width |-> 400, height |-> 200], [width |-> 200, height |-> 400],
    [width |-> 801, height |-> 600] }

\* servers props the parent passes down: names are distinct within a list;
\* one list has a server named as the hub is keyed, one a record with a field
\* the node also has, one a record without a name
LayoutLists ==
  { <<>>,
    <<Srv("s1", 95)>>,
    <<Srv("s1", 95), Srv("s2", 10)>>,
    <<Srv("s1", 10), Srv("s2", 20), Srv("s3", 30)>>,
    <<Srv("s1", 10), Srv("s2", 20), Srv("s3", 30), Srv("s4", 40)>>,
    <<Srv("s1", 10), Srv("lb", 20)>>,
    <<Srv("s1", 10) @@ [type |-> "database"], Srv("s2", 20)>>,
    <<[cpu_usage |-> 5], Srv("s2", 20)>> }

\* the first render: no container measured yet, no servers
LayoutInit ==
  /\ dimensions = [width |-> 0, height |-> 0]
  /\ lyServers = <<>>
  /\ positions = CalculatePositions(<<>>, [width |-> 0, height |-> 0])
  /\ lyRenders = 1

\* updateDimensions(), after the mount and on every resize of the window:
\* setDimensions and the render that follows
UpdateDimensions(dim) ==
  /\ LayoutStep
  /\ lyRenders < MaxRenders
  /\ dimensions' = dim
  /\ positions' = CalculatePositions(lyServers, dim)
  /\ lyRenders' = lyRenders + 1
  /\ UNCHANGED lyServers

\* the parent renders with a new servers prop
LayoutServersChange(list) ==
  /\ LayoutStep
  /\ lyRenders < MaxRenders
  /\ lyServers' = list
  /\ positions' = CalculatePositions(list, dimensions)
  /\ lyRenders' = lyRenders + 1
  /\ UNCHANGED dimensions

\* a render for another reason (setTraffic): calculatePositions() is called
\* again with the same servers and dimensions
Rerender ==
  /\ LayoutStep
  /\ lyRenders < MaxRenders
  /\ positions' = CalculatePositions(lyServers, dimensions)
  /\ lyRenders' = lyRenders + 1
  /\ UNCHANGED <<dimensions, lyServers>>

Resize == \E dim \in Viewports : UpdateDimensions(dim)
LayoutServersPropChanges == \E list \in LayoutLists : LayoutServersChange(list)

LayoutNext ==
  \/ Resize
  \/ LayoutServersPropChanges
  \/ Rerender

(***************************************************************************)
(* ServerMetrics.jsx: the metrics history effect.                          *)
(***************************************************************************)
\* server.name is truthy
HasName(server) == "name" \in DOMAIN server /\ server.name # ""

\* server.field || 0
OrZero(r, f) == IF f \in DOMAIN r THEN r[f] ELSE 0

\* newEntry
NewEntry(server, t) ==
  [timestamp |-> t,
   cpu |-> OrZero(server, "cpu_usage"),
   memory |-> OrZero(server, "memory_usage"),
   connections |-> OrZero(server, "connections")]

\* an append that never evicts
AppendSampleNoEvict(history, entry) == Append(history, entry)

\* an append that makes room by dropping the newest of the old samples
AppendSampleDropNewest(history, entry) ==
  Append(IF Len(history) <= 19 THEN history ELSE SubSeq(history, 1, 19), entry)

\* [...history.slice(-19), newEntry]
AppendSample(history, entry) == Append(SliceLast(history, 19), entry)

\* prev[server.name] || []
HistoryOf(hist, name) == IF name \in DOMAIN hist THEN hist[name] ELSE <<>>

\* an updater that returns the history of this server alone
UpdateHistoryAlone(hist, server, t) ==
  [n \in {server.name} |->
     AppendSample(HistoryOf(hist, server.name), NewEntry(server, t))]

\* the updater given to setMetricsHistory for one server
UpdateHistory(hist, server, t) ==
  [n \in DOMAIN hist \cup {server.name} |->
     IF n = server.name
     THEN AppendSample(HistoryOf(hist, server.name), NewEntry(server, t))
     ELSE hist[n]]

\* servers.forEach(server => { if (!server.name) return; setMetricsHistory(...) })
\* the queued updaters run in order
RECURSIVE ApplyServers(_, _, _)
ApplyServers(hist, list, t) ==
  IF list = <<>> THEN hist
  ELSE ApplyServers(IF HasName(Head(list)) THEN UpdateHistory(hist, Head(list), t) ELSE hist,
                    Tail(list), t)

\* a classification that looks at the load before the health flag
GetServerStatusLoadFirst(server) ==
  IF \/ "cpu_usage" \in DOMAIN server /\ server.cpu_usage > 80
     \/ "memory_usage" \in DOMAIN server /\ server.memory_usage > 85
  THEN "warning"
  ELSE IF "healthy" \in DOMAIN server /\ server.healthy = FALSE THEN "unhealthy"
  ELSE "healthy"

\* getServerStatus(server); undefined === false and undefined > 80 are false
GetServerStatus(server) ==
  IF "healthy" \in DOMAIN server /\ server.healthy = FALSE THEN "unhealthy"
  ELSE IF \/ "cpu_usage" \in DOMAIN server /\ server.cpu_usage > 80
          \/ "memory_usage" \in DOMAIN server /\ server.memory_usage > 85
  THEN "warning"
  ELSE "healthy"

\* a JavaScript number: an integer, or NaN
Num(v) == [nan |-> FALSE, val |-> v]
NaN == [nan |-> TRUE, val |-> 0]

\* recent[1][metric] - recent[0][metric]: NaN when a sample has no such field
MetricDiff(last, secondLast, metric) ==
  IF metric \in DOMAIN last /\ metric \in DOMAIN secondLast
  THEN Num(last[metric] - secondLast[metric])
  ELSE NaN

\* a trend that compares the newest sample with the oldest one kept
CalculateTrendFromOldest(hist, serverName, metric) ==
  IF serverName \notin DOMAIN hist \/ Len(HistoryOf(hist, serverName)) < 2 THEN Num(0)
  ELSE MetricDiff(hist[serverName][Len(hist[serverName])], hist[serverName][1], metric)

\* calculateTrend(serverName, metric); metricsHistory[undefined] is undefined
CalculateTrend(hist, serverName, metric) ==
  IF serverName \notin DOMAIN hist \/ Len(HistoryOf(hist, serverName)) < 2 THEN Num(0)
  ELSE LET recent == SliceLast(hist[serverName], 2)
       IN MetricDiff(recent[2], recent[1], metric)

\* server.name as a key of metricsHistory; the key of a nameless server has no history
NameOf(server) == IF HasName(server) THEN server.name ELSE ""

\* a render that still sees the history as it was before the newest samples
RenderViewBeforeEffect(list, hist) ==
  LET old == [n \in DOMAIN hist |-> SubSeq(hist[n], 1, Len(hist[n]) - 1)]
  IN [i \in 1..Len(list) |->
        [status |-> GetServerStatus(list[i]),
         trendCpu |-> CalculateTrend(old, NameOf(list[i]), "cpu"),
         trendMemory |-> CalculateTrend(old, NameOf(list[i]), "memory")]]

\* the server list of the render: servers.map(server => ...), nothing when
\* servers.length === 0
RenderView(list, hist) ==
  [i \in 1..Len(list) |->
     [status |-> GetServerStatus(list[i]),
      trendCpu |-> CalculateTrend(hist, NameOf(list[i]), "cpu"),
      trendMemory |-> CalculateTrend(hist, NameOf(list[i]), "memory")]]

\* entity snapshots with all, some or none of their fields
Full(n, cpu, mem, conn) ==
  [name |-> n, cpu_usage |-> cpu, memory_usage |-> mem, connections |-> conn, healthy |-> TRUE]

\* servers.reduce((sum, s) => sum + s.connections, 0), the Active Connections
\* figure the parent renders from the same servers list: a record without
\* connections adds undefined, and the sum is NaN from there on
SumConnections(list, k) ==
  LET step[i \in 0..k] ==
        IF i = 0 THEN Num(0)
        ELSE IF step[i - 1].nan \/ "connections" \notin DOMAIN list[i] THEN NaN
        ELSE Num(step[i - 1].val + list[i].connections)
  IN step[k]
ActiveConnections(list) == SumConnections(list, Len(list))

\* servers props the parent passes down: a poll's entity list
SmLists ==
  { <<>>,
    <<Full("s1", 95, 10, 1)>>,
    <<Full("s1", 50, 10, 1)>>,
    <<Full("s1", 10, 90, 2), [name |-> "s2", cpu_usage |-> 30]>>,
    <<[cpu_usage |-> 5, healthy |-> FALSE], Full("s2", 30, 10, 0)>> }

\* the k-th regular poll reports s1 and s2 with cpu k
WarmList(k) == <<Full("s1", k, 10, 1), Full("s2", k, 20, 2)>>

\* the session starts with no regular poll, or with 18 of them
WarmUps == {0, 18}

\* one entity with every combination of absent fields, values at and just
\* above the thresholds, and the health flag true, false or absent
StatusInputs ==
  { n @@ c @@ m @@ h :
      n \in {<<>>, [name |-> "s1"]},
      c \in {<<>>, [cpu_usage |-> 80], [cpu_usage |-> 81]},
      m \in {<<>>, [memory_usage |-> 85], [memory_usage |-> 86]},
      h \in {<<>>, [healthy |-> TRUE], [healthy |-> FALSE]} }

SmInit ==
  /\ smServers = <<>>
  /\ metricsHistory = <<>>
  /\ smNow = 0
  /\ smSteps = 0
  /\ smWarmUp = 0
  /\ smView = <<>>
  /\ smLog = <<>>

SmStart ==
  /\ smServers = <<>>
  /\ metricsHistory = <<>>
  /\ smNow = 0
  /\ smSteps = 0
  /\ smWarmUp \in WarmUps
  /\ smView = <<>>
  /\ smLog = <<>>

\* the parent re-renders with a new servers array, a second later: the
\* effect on [servers] runs and the component renders with the new history
SmServersChange(list) ==
  /\ SmStep
  /\ smSteps < smWarmUp + MaxSmSteps
  /\ smServers' = list
  /\ smNow' = smNow + 1000
  /\ metricsHistory' = ApplyServers(metricsHistory, list, smNow + 1000)
  /\ smSteps' = smSteps + 1
  /\ smView' = RenderView(list, metricsHistory')
  /\ smLog' = Append(smLog, list)
  /\ UNCHANGED smWarmUp

\* one of the regular polls the session starts with
SmWarmPoll == smSteps < smWarmUp /\ SmServersChange(WarmList(smSteps + 1))

\* any later poll
SmPoll == smSteps >= smWarmUp /\ \E list \in SmLists : SmServersChange(list)

SmNext ==
  \/ SmWarmPoll
  \/ SmPoll

\* the parent passes down a list of one entity
StatusNext == smSteps < MaxStatusSteps /\ \E s \in StatusInputs : SmServersChange(<<s>>)

(***************************************************************************)
(* LoadBalancerStats.jsx: algorithm history and request rate.              *)
(***************************************************************************)
\* stats.algorithm, undefined when absent
AlgorithmOf(st) == IF "algorithm" \in DOMAIN st THEN st.algorithm ELSE ""

\* the effect on [stats.algorithm]: if (stats.algorithm) append, keep 10
RecordAlgorithm(h, st, t) ==
  IF AlgorithmOf(st) # ""
  THEN Append(SliceLast(h, 9),
              [algorithm |-> st.algorithm, timestamp |-> t,
               healthyServers |-> OrZero(st, "healthy_servers"),
               totalRequests |-> OrZero(st, "total_requests")])
  ELSE h

\* Math.round(a / b) for b > 0
RoundDiv(a, b) == (2 * a + b) \div (2 * b)

\* calculateAlgorithmPerformance().requestRate
RequestRateOf(h) ==
  IF Len(h) < 2 THEN 0
  ELSE LET current == h[Len(h)]
           previous == h[Len(h) - 1]
           requestChange == current.totalRequests - previous.totalRequests
           timeDiffMs == current.timestamp - previous.timestamp
       IN IF timeDiffMs > 0 THEN RoundDiv(requestChange * 1000, timeDiffMs) ELSE 0

RequestRate == RequestRateOf(algorithmHistory)

\* what a render draws with Math.random() for the three mock figures:
\* 50 + Math.random() * 50, 0.5 + Math.random() * 1.5 and
\* 85 + Math.random() * 15 are reals, kept here by their integer parts.  The
\* lowest and the highest draw of each.
RenderDraws == [avgResponseTime : {50, 99}, errorRate : {0, 1}, efficiency : {85, 99}]

\* the component is not rendered
NotRendered == [tag |-> "none"]

\* calculateAlgorithmPerformance(), r being what Math.random() gives this time
CalculateAlgorithmPerformance(h, r) ==
  IF Len(h) < 2
  THEN [requestRate |-> 0, avgResponseTime |-> 0, errorRate |-> 0, efficiency |-> 0]
  ELSE [requestRate |-> RequestRateOf(h),
        avgResponseTime |-> r.avgResponseTime,
        errorRate |-> r.errorRate,
        efficiency |-> r.efficiency]

\* values of the stats prop: what App holds in stats
LbStatsValues == {NullStats, BodyErr, BodyA, BodyB, PushA, PushB}

\* useState initial value of performanceMetrics
NoMetrics == [requestsPerSecond |-> <<>>, responseTimes |-> <<>>, errorRates |-> <<>>]

\* a rolling append that keeps one sample too many
RollKeepAll30(seq, v) == Append(SliceLast(seq, 30), v)

\* [...prev.requestsPerSecond.slice(-29), rps], the same for the other two
Roll(seq, v) == Append(SliceLast(seq, 29), v)

\* what the interval callback draws with Math.random(): rps is
\* Math.floor(Math.random() * 50) + 20; responseTime (ms) and errorRate (%)
\* are reals, kept here by their integer parts.  The lowest and the highest
\* draw of each.
Draws == [rps : {20, 69}, responseTime : {50, 99}, errorRate : {0, 1}]

\* the draw of the k-th callback of the warm-up: a different one each time
WarmDraw(k) == [rps |-> 20 + (k % 50), responseTime |-> 50 + (k % 50), errorRate |-> k % 2]

\* the session starts with no callback, or with 28 of them
PerfWarmUps == {0, 28}

\* the cumulative snapshots the component has received, newest last, at most two
Seen(seen, st, t) ==
  IF "total_requests" \in DOMAIN st
  THEN Append(SliceLast(seen, 1), [totalRequests |-> st.total_requests, timestamp |-> t])
  ELSE seen

LbInit ==
  /\ lbMounted = FALSE
  /\ lbStats = NullStats
  /\ algorithmHistory = <<>>
  /\ lbNow = 0
  /\ lbSteps = 0
  /\ performanceMetrics = NoMetrics
  /\ perfTicks = 0
  /\ perfWarmUp = 0
  /\ lbSeen = <<>>
  /\ lbView = NotRendered

LbStart ==
  /\ lbMounted = FALSE
  /\ lbStats = NullStats
  /\ algorithmHistory = <<>>
  /\ lbNow = 0
  /\ lbSteps = 0
  /\ performanceMetrics = NoMetrics
  /\ perfTicks = 0
  /\ perfWarmUp \in PerfWarmUps
  /\ lbSeen = <<>>
  /\ lbView = NotRendered

\* App re-renders with a new stats.  {stats && <LoadBalancerStats/>}: null
\* unmounts the component and its state; the first truthy stats mounts it and
\* runs the effect; later the effect runs when stats.algorithm has changed
LbSetStats(st) ==
  /\ LbStep
  /\ lbSteps < MaxLbSteps
  /\ lbSteps' = lbSteps + 1
  /\ lbStats' = st
  /\ lbMounted' = (st # NullStats)
  /\ algorithmHistory' =
       IF st = NullStats THEN <<>>
       ELSE IF ~lbMounted THEN RecordAlgorithm(<<>>, st, lbNow)
       ELSE IF AlgorithmOf(st) # AlgorithmOf(lbStats)
            THEN RecordAlgorithm(algorithmHistory, st, lbNow)
       ELSE algorithmHistory
  /\ performanceMetrics' = IF st = NullStats THEN NoMetrics ELSE performanceMetrics
  /\ lbSeen' = IF st = NullStats THEN <<>> ELSE Seen(lbSeen, st, lbNow)
  /\ \E r \in RenderDraws :
       lbView' = IF st = NullStats THEN NotRendered
                 ELSE CalculateAlgorithmPerformance(algorithmHistory', r)
  /\ UNCHANGED <<lbNow, perfTicks, perfWarmUp>>

\* a second passes
LbAdvance ==
  /\ LbStep
  /\ lbNow < MaxLbSeconds * 1000
  /\ lbNow' = lbNow + 1000
  /\ UNCHANGED <<lbMounted, lbStats, algorithmHistory, lbSteps, performanceMetrics,
                 perfTicks, perfWarmUp, lbSeen, lbView>>

\* the callback of setInterval(..., 1000), live while the component is mounted
PerformanceTick(d) ==
  /\ LbStep
  /\ lbMounted
  /\ perfTicks < perfWarmUp + MaxPerfTicks
  /\ perfTicks' = perfTicks + 1
  /\ performanceMetrics' =
       [requestsPerSecond |-> Roll(performanceMetrics.requestsPerSecond, d.rps),
        responseTimes |-> Roll(performanceMetrics.responseTimes, d.responseTime),
        errorRates |-> Roll(performanceMetrics.errorRates, d.errorRate)]
  /\ \E r \in RenderDraws : lbView' = CalculateAlgorithmPerformance(algorithmHistory, r)
  /\ UNCHANGED <<lbMounted, lbStats, algorithmHistory, lbNow, lbSteps, perfWarmUp, lbSeen>>

\* one of the callbacks the session starts with
PerfWarmTick == perfTicks < perfWarmUp /\ PerformanceTick(WarmDraw(perfTicks + 1))

\* any later callback
PerfTick == perfTicks >= perfWarmUp /\ \E d \in Draws : PerformanceTick(d)

\* the first snapshot arrives: App renders the component
PerfMount == ~lbMounted /\ LbSetStats(BodyA)

\* a poll answered with null: App stops rendering the component
PerfUnmount == lbMounted /\ perfTicks >= perfWarmUp /\ LbSetStats(NullStats)

\* a later snapshot names another algorithm
PerfAlgorithmChange == lbMounted /\ perfTicks >= perfWarmUp /\ LbSetStats(BodyB)

PerfNext ==
  \/ PerfMount
  \/ PerfUnmount
  \/ PerfAlgorithmChange
  \/ PerfWarmTick
  \/ PerfTick

StatsPropChanges == \E st \in LbStatsValues : LbSetStats(st)

LbNext ==
  \/ StatsPropChanges
  \/ LbAdvance

(***************************************************************************)
(* TrafficFlow.jsx                                                         *)
(* A mean is kept as the fraction it is computed from: the sum of the      *)
(* values over their number.                                               *)
(***************************************************************************)
\* sum / count
Frac(n, d) == [num |-> n, den |-> d]

\* d[f] || dflt: 0 and an absent field give the default
OrDefault(d, f, dflt) == IF f \in DOMAIN d /\ d[f] # 0 THEN d[f] ELSE dflt

\* { timestamp: Date.now(), ...newEntry }: a timestamp of the entry wins
Stamped(entry, t) == entry @@ [timestamp |-> t]

\* a log that keeps one entry too many
AppendEntryKeep101(log, entry, t) == SliceLast(Append(log, Stamped(entry, t)), 101)

\* [...prev, {...}].slice(-100)
AppendEntry(log, entry, t) == SliceLast(Append(log, Stamped(entry, t)), 100)

\* array.reduce((a, b) => a + b, 0) over the values d[f] || dflt
SumField(list, f, dflt) ==
  LET acc[i \in 0..Len(list)] ==
        IF i = 0 THEN 0 ELSE acc[i - 1] + OrDefault(list[i], f, dflt)
  IN acc[Len(list)]

\* Math.max(...requests, 0)
PeakRequests(list) ==
  LET requests == {OrDefault(list[i], "requests", 0) : i \in 1..Len(list)} \cup {0}
  IN CHOOSE m \in requests : \A v \in requests : m >= v

\* calculateStats(): the figures of the last 30 entries; errorRate is
\* 100 - mean, kept over the same denominator
CalculateStats(log) ==
  IF Len(log) = 0
  THEN [totalRequests |-> 0, avgResponseTime |-> Frac(0, 1), successRate |-> Frac(100, 1),
        throughput |-> Frac(0, 1), peakRequests |-> 0, errorRate |-> Frac(0, 1)]
  ELSE LET recentData == SliceLast(log, 30)
           n == Len(recentData)
       IN [totalRequests |-> SumField(recentData, "requests", 0),
           avgResponseTime |-> Frac(SumField(recentData, "responseTime", 0), n),
           successRate |-> Frac(SumField(recentData, "successRate", 100), n),
           throughput |-> Frac(SumField(recentData, "requests", 0), n),
           peakRequests |-> PeakRequests(recentData),
           errorRate |-> Frac(100 * n - SumField(recentData, "successRate", 100), n)]

\* renderChart(): the placeholder until the log holds two entries
ChartOf(log) == IF Len(log) < 2 THEN "collecting" ELSE "chart"

\* the render: stats = calculateStats() and renderChart()
TfRender(log) == [stats |-> CalculateStats(log), chart |-> ChartOf(log)]

\* payloads of traffic_update messages: a regular one, one without
\* successRate, one of a second in which every request failed
TfPayloads ==
  { [requests |-> 10, bytes |-> 500, responseTime |-> 80, successRate |-> 90],
    [requests |-> 20, bytes |-> 900, responseTime |-> 120],
    [requests |-> 5, bytes |-> 100, responseTime |-> 60, successRate |-> 0] }

\* the payload of the k-th traffic update of the warm-up
TfWarmPayload(k) ==
  [requests |-> k, bytes |-> 100 * k, responseTime |-> 50 + (k % 50), successRate |-> 90 + (k % 10)]

\* the session starts with no traffic update, or with 98 of them
TfWarmUps == {0, 98}

\* what the mock interval draws with Math.random(): requests is
\* Math.floor(Math.random() * 100), bytes Math.floor(Math.random() * 1000000),
\* responseTime Math.random() * 100 + 50 and successRate 95 + Math.random() * 5,
\* reals kept here by their integer parts.  The lowest and the highest draw.
MockDraws ==
  { [requests |-> 0, bytes |-> 0, responseTime |-> 50, successRate |-> 95],
    [requests |-> 99, bytes |-> 999999, responseTime |-> 149, successRate |-> 99] }

\* the effect on [trafficData.length], after a render with a new log: when the
\* length has changed the cleanup clears the interval, and the effect starts
\* one again only for an empty log
MockAfter(live, oldLog, newLog) ==
  IF Len(newLog) = Len(oldLog) THEN live ELSE Len(newLog) = 0

TfInit ==
  /\ tfData = <<>>
  /\ tfLog = <<>>
  /\ tfMock = FALSE
  /\ tfNow = 0
  /\ tfSteps = 0
  /\ tfWarmUp = 0
  /\ tfView = TfRender(<<>>)

\* the component after its first render and effects: data is empty, so the
\* incoming data effect did nothing and the mock effect started its interval
TfStart ==
  /\ tfData = <<>>
  /\ tfLog = <<>>
  /\ tfMock = TRUE
  /\ tfNow = 0
  /\ tfSteps = 0
  /\ tfWarmUp \in TfWarmUps
  /\ tfView = TfRender(<<>>)

\* the parent applies a traffic_update, setTrafficData(prev =>
\* [...prev.slice(-50), payload]), and renders with the new data: the effect
\* on [data] appends its last element, the component renders, and the effect
\* on [trafficData.length] runs
TfDataChange(payload) ==
  /\ TfStep
  /\ tfSteps < tfWarmUp + MaxTfSteps
  /\ tfSteps' = tfSteps + 1
  /\ tfNow' = tfNow + 1000
  /\ tfData' = Append(SliceLast(tfData, 50), payload)
  /\ tfLog' = AppendEntry(tfLog, tfData'[Len(tfData')], tfNow + 1000)
  /\ tfMock' = MockAfter(tfMock, tfLog, tfLog')
  /\ tfView' = TfRender(tfLog')
  /\ UNCHANGED tfWarmUp

\* the callback of the mock interval, a second after the last step: it
\* appends a mock entry, the component renders, and the effect on
\* [trafficData.length] runs
TfMockAppend(d) ==
  /\ TfStep
  /\ tfMock
  /\ tfNow < MaxMockTicks * 1000
  /\ tfNow' = tfNow + 1000
  /\ tfLog' = AppendEntry(tfLog, d, tfNow + 1000)
  /\ tfMock' = MockAfter(tfMock, tfLog, tfLog')
  /\ tfView' = TfRender(tfLog')
  /\ UNCHANGED <<tfData, tfSteps, tfWarmUp>>

\* one of the traffic updates the session starts with
TfWarmUpdate == tfSteps < tfWarmUp /\ TfDataChange(TfWarmPayload(tfSteps + 1))

\* any later traffic update
TfUpdate == tfSteps >= tfWarmUp /\ \E payload \in TfPayloads : TfDataChange(payload)

TfMockTick == \E d \in MockDraws : TfMockAppend(d)

TfNext ==
  \/ TfWarmUpdate
  \/ TfUpdate
  \/ TfMockTick

Init == AppInit /\ TopoInit /\ LayoutInit /\ SmInit /\ LbInit /\ TfInit /\ ApiInit /\ SimInit

Next == AppNext
Spec == Init /\ [][Next]_vars

\* what the browser's event loop guarantees: a live interval keeps firing, a
\* pending fetch() settles (with a response or a rejection), a connection
\* attempt that is not refused opens.  Nothing obliges the user to act, the
\* backend to push or the network to stay up.
Fairness ==
  /\ WF_vars(PollTick)
  /\ WF_vars(StatsSettles)
  /\ WF_vars(ServersSettles)
  /\ WF_vars(AlgorithmSettles)
  /\ WF_vars(RequestSettles)
  /\ WF_vars(SettlesAfterClose)
  /\ WF_vars(WsOpen)
SpecFair == Init /\ [][Next]_vars /\ Fairness

NextCommands == CommandsNext
SpecCommands == Init /\ [][NextCommands]_vars

\* a pending fetch() settles and a pending timeout fires; nothing obliges
\* the user to start a simulation
NextSim == SimNext
SpecSim == Init /\ [][NextSim]_vars /\ WF_vars(SimRequestSettles) /\ WF_vars(SimPauseEnds)

NextParse == ParseNext
SpecParse == Init /\ [][NextParse]_vars

NextPush == PushNext
SpecPush == Init /\ [][NextPush]_vars

NextTopology == TopoNext
SpecTopology == Init /\ [][NextTopology]_vars

InitMetrics == AppInit /\ TopoInit /\ LayoutInit /\ SmStart /\ LbInit /\ TfInit /\ ApiInit /\ SimInit
NextMetrics == SmNext
SpecMetrics == InitMetrics /\ [][NextMetrics]_vars

NextStatus == StatusNext
SpecStatus == Init /\ [][NextStatus]_vars

InitPerf == AppInit /\ TopoInit /\ LayoutInit /\ SmInit /\ LbStart /\ TfInit /\ ApiInit /\ SimInit
NextPerf == PerfNext
SpecPerf == InitPerf /\ [][NextPerf]_vars

NextLB == LbNext
SpecLB == Init /\ [][NextLB]_vars

NextLayout == LayoutNext
SpecLayout == Init /\ [][NextLayout]_vars

InitTraffic == AppInit /\ TopoInit /\ LayoutInit /\ SmInit /\ LbInit /\ TfStart /\ ApiInit /\ SimInit
NextTraffic == TfNext
SpecTraffic == InitTraffic /\ [][NextTraffic]_vars

\* a live setInterval keeps firing; nothing obliges the backend to send
\* traffic updates
SpecTrafficFair == InitTraffic /\ [][NextTraffic]_vars /\ WF_vars(TfMockTick)

(***************************************************************************)
(* Properties.                                                             *)
(***************************************************************************)
Names(list) == {list[i].name : i \in 1..Len(list)}

\* C1: in every state the rendering layer can see, stats and servers were
\* written by one and the same applied update.
C1_SingleUpdateView == statsFrom = serversFrom

\* C2: /stats polls are applied in the order they were issued: the poll applied
\* by a step was never issued before the poll applied last.
C2_PollsAppliedInIssueOrder == [][lastPoll' >= lastPoll]_vars

\* C3: the history of every server holds at most 20 samples.
C3_HistoryAtMost20 == \A n \in DOMAIN metricsHistory : Len(metricsHistory[n]) <= 20

\* C3 witness: a full history whose oldest warm-up samples were evicted by the
\* prop changes that followed.
C3_Witness ==
  /\ smSteps = smWarmUp + MaxSmSteps
  /\ \E n \in DOMAIN metricsHistory :
       /\ Len(metricsHistory[n]) = 20
       /\ metricsHistory[n][1].timestamp > 1000

\* C4: the log fed by traffic_update messages never holds more than 50 entries.
C4_TrafficLogAtMost50 == Len(trafficData) <= 50

\* C5: the reported request rate is never negative.
C5_RateNeverNegative == RequestRate >= 0

\* C6: while the component is mounted, an event created at t is in the active
\* set exactly once at every instant before t + 2000 ms and is not in it at any
\* instant after t + 2000 ms; so no removal takes an event before its own
\* time-to-live has passed.
C6_EventLifetime ==
  topoMounted =>
    \A t \in created :
      LET n == Cardinality({i \in 1..Len(traffic) : traffic[i].id = t})
      IN /\ now < t + 2000 => n = 1
         /\ now > t + 2000 => n = 0

\* C6 witness: an event has outlived its time-to-live and is gone, while
\* younger events are still active.
C6_Witness ==
  /\ topoMounted
  /\ traffic # <<>>
  /\ \E t \in created : now > t + 2000

\* C7: after the scheduler was stopped (unmount, or restart on a change of the
\* servers prop) no removal timer of the stopped scheduler is pending.
C7_StopCancelsRemovalTimers ==
  /\ \A k \in 1..Len(timers) : timers[k].gen = gen
  /\ ~topoMounted => timers = <<>>

\* C8: while the scheduler runs and the entity set is non-empty, an event was
\* created within the last 500 ms (or the set became non-empty within them).
C8_EventEveryTickPeriod ==
  (topoMounted /\ Len(topoServers) > 0) =>
    \E t \in created \cup {nonEmptySince} : now - t <= 500

C10_FailedPollKeepsView ==
  [][\A r \in inflight \ inflight' :
       r.kind = "stats" =>
         \/ statsFrom' = Upd("poll", r.id) /\ "server_stats" \in DOMAIN stats'
         \/ stats' = stats /\ servers' = servers]_vars

\* C11 as claimed: a step that changes the algorithm label changes nothing
\* else: stats, the entity list, the traffic log, the timer, the channel and
\* the set of requests in flight gain nothing.
C11_OnlyLabelChanges ==
  [][(algorithm' # algorithm)
       => /\ UNCHANGED <<stats, servers, trafficData, phase, pollTimer, wsState>>
          /\ inflight' \subseteq inflight]_vars

\* C11 as amended: in an open session, a settled algorithm command that took
\* effect sets the label to the requested algorithm and issues exactly one
\* /stats poll; stats, the entity list, the traffic log, the poll timer and the
\* push channel are the same after that step as before it.
C11_LabelChangesAndOnePoll ==
  [][\A r \in inflight \ inflight' :
       (/\ phase = "mounted" /\ r.kind = "algorithm"
        /\ (algorithm' # algorithm \/ ~(inflight' \subseteq inflight)))
         => /\ algorithm' = r.arg
            /\ inflight' = (inflight \ {r}) \cup {Req(nextReq + 1, "stats", "-")}
            /\ nextReq' = nextReq + 1
            /\ UNCHANGED <<stats, servers, trafficData, phase, pollTimer, wsState>>]_vars

\* C11 witness: the label was changed by a command issued before any snapshot
\* arrived, and the poll the command issued is in flight.
C11_Witness ==
  /\ phase = "mounted"
  /\ algorithm = "least_connections"
  /\ stats = NullStats /\ servers = <<>>
  /\ Req(nextReq, "stats", "-") \in inflight
  /\ \A r \in inflight : r.kind # "algorithm"

\* C12: every rendered entity has exactly one of the three categories, chosen
\* in this order: unhealthy when its health flag is false; otherwise warning
\* when its cpu is above 80 or its memory above 85; otherwise healthy.  An
\* absent flag is not false and an absent load is not above its threshold.
C12_ClassificationTotalAndOrdered ==
  /\ Len(smView) = Len(smServers)
  /\ \A i \in 1..Len(smServers) :
       LET e == smServers[i]
           flaggedDown == "healthy" \in DOMAIN e /\ e.healthy = FALSE
           overloaded == \/ "cpu_usage" \in DOMAIN e /\ e.cpu_usage > 80
                         \/ "memory_usage" \in DOMAIN e /\ e.memory_usage > 85
       IN /\ smView[i].status \in {"healthy", "warning", "unhealthy"}
          /\ flaggedDown => smView[i].status = "unhealthy"
          /\ (~flaggedDown /\ overloaded) => smView[i].status = "warning"
          /\ (~flaggedDown /\ ~overloaded) => smView[i].status = "healthy"

\* C12 witness: an entity reported with nothing but its name was rendered
\* healthy, then reported down and overloaded and rendered unhealthy.
C12_Witness ==
  /\ smLog = << <<[name |-> "s1"]>>, <<[name |-> "s1", cpu_usage |-> 81, healthy |-> FALSE]>> >>
  /\ smView[1].status = "unhealthy"

\* C13: the trend of a sampled metric of an entity is 0 when the entity has
\* no history or fewer than two samples, and otherwise the metric's value in
\* the last sample minus its value in the second-to-last sample; the rendered
\* cpu and memory trends are these values.
C13_TrendIsLastMinusSecondLast ==
  /\ \A n \in DOMAIN metricsHistory \cup {"", "s9"}, metric \in {"cpu", "memory", "connections"} :
       LET h == IF n \in DOMAIN metricsHistory THEN metricsHistory[n] ELSE <<>>
       IN CalculateTrend(metricsHistory, n, metric) =
            IF Len(h) < 2 THEN Num(0) ELSE Num(h[Len(h)][metric] - h[Len(h) - 1][metric])
  /\ \A i \in 1..Len(smView) :
       /\ smView[i].trendCpu = CalculateTrend(metricsHistory, NameOf(smServers[i]), "cpu")
       /\ smView[i].trendMemory = CalculateTrend(metricsHistory, NameOf(smServers[i]), "memory")

\* C13 witness: s1 has three samples or more, its cpu fell and its memory rose
\* between the last two; s2 has a single sample and trend 0.
C13_Witness ==
  /\ Len(smServers) = 2 /\ NameOf(smServers[1]) = "s1" /\ NameOf(smServers[2]) = "s2"
  /\ Len(metricsHistory["s1"]) >= 3
  /\ smView[1].trendCpu = Num(0 - 40) /\ smView[1].trendMemory = Num(80)
  /\ Len(metricsHistory["s2"]) = 1
  /\ smView[2].trendCpu = Num(0)

\* the cpu values reported for entity n by the snapshots of a log, in order
\* (0 for a snapshot that names n without a cpu value)
RECURSIVE CpuSeries(_, _)
CpuSeries(log, n) ==
  IF log = <<>> THEN <<>>
  ELSE LET snapshot == log[Len(log)]
           mine == SelectSeq(snapshot, LAMBDA e : HasName(e) /\ e.name = n)
       IN CpuSeries(SubSeq(log, 1, Len(log) - 1), n)
            \o [i \in 1..Len(mine) |-> OrZero(mine[i], "cpu_usage")]

\* C14: after any sequence of applied snapshots, the rendered entities are
\* those of the most recent snapshot, each classified by its record in that
\* snapshot, and the cpu trend of a named entity is the cpu of the most recent
\* snapshot that reported it minus the cpu of the one before (0 when fewer
\* than two snapshots reported it).
C14_ViewFollowsLatestSnapshot ==
  (smLog # <<>>) =>
    LET latest == smLog[Len(smLog)]
    IN /\ Len(smView) = Len(latest)
       /\ \A i \in 1..Len(latest) :
            /\ smView[i].status = GetServerStatus(latest[i])
            /\ HasName(latest[i]) =>
                 LET cpus == CpuSeries(smLog, latest[i].name)
                     k == Len(cpus)
                 IN smView[i].trendCpu =
                      IF k < 2 THEN Num(0) ELSE Num(cpus[k] - cpus[k - 1])

\* C14 witness: s1 was reported with cpu 95 and then with cpu 50: it is
\* rendered healthy with a cpu trend of -45.
C14_Witness ==
  /\ Len(smLog) >= 2
  /\ smLog[Len(smLog) - 1] = <<Full("s1", 95, 10, 1)>>
  /\ smLog[Len(smLog)] = <<Full("s1", 50, 10, 1)>>
  /\ smView = <<[status |-> "healthy", trendCpu |-> Num(0 - 45), trendMemory |-> Num(0)]>>

\* C15: a step that changes the history of an entity appends one sample to
\* it: below 20 samples nothing is dropped; at 20 samples exactly the oldest
\* is dropped, so the result is the 19 most recent earlier samples in their
\* order followed by the new sample.
C15_FifoEviction ==
  [][\A n \in DOMAIN metricsHistory' :
       LET old == IF n \in DOMAIN metricsHistory THEN metricsHistory[n] ELSE <<>>
           new == metricsHistory'[n]
       IN \/ new = old
          \/ /\ Len(old) < 20
             /\ Len(new) = Len(old) + 1
             /\ SubSeq(new, 1, Len(old)) = old
             /\ new[Len(new)].timestamp = smNow'
          \/ /\ Len(old) = 20
             /\ Len(new) = 20
             /\ SubSeq(new, 1, 19) = SubSeq(old, 2, 20)
             /\ new[20].timestamp = smNow']_vars

\* C15 witness: the history of s1 is full, its oldest sample (the one of the
\* first poll) is gone, the 19 that followed it are kept in order and the
\* newest sample is the one of the current poll.
C15_Witness ==
  /\ "s1" \in DOMAIN metricsHistory
  /\ Len(metricsHistory["s1"]) = 20
  /\ \A i \in 1..19 : metricsHistory["s1"][i].timestamp = (i + 1) * 1000
  /\ metricsHistory["s1"][20].timestamp = smNow

\* C16: the three rolling sequences always have the same length, at most 30;
\* a callback of the interval appends exactly one value to each, and at 30
\* values the oldest of each is dropped.
C16_RollingSequencesInStep ==
  [][LET old == performanceMetrics
         new == performanceMetrics'
         Rolled(a, b) == /\ Len(b) = (IF Len(a) < 30 THEN Len(a) + 1 ELSE 30)
                         /\ SubSeq(b, 1, Len(b) - 1) = (IF Len(a) < 30 THEN a ELSE Tail(a))
     IN /\ Len(new.requestsPerSecond) = Len(new.responseTimes)
        /\ Len(new.responseTimes) = Len(new.errorRates)
        /\ Len(new.requestsPerSecond) <= 30
        /\ (perfTicks' # perfTicks) =>
             /\ Rolled(old.requestsPerSecond, new.requestsPerSecond)
             /\ Rolled(old.responseTimes, new.responseTimes)
             /\ Rolled(old.errorRates, new.errorRates)]_vars

\* C16 witness: after more than 30 callbacks the three sequences hold 30
\* values each and start with the draw of the second callback.
C16_Witness ==
  /\ perfTicks > 30
  /\ Len(performanceMetrics.requestsPerSecond) = 30
  /\ Len(performanceMetrics.responseTimes) = 30
  /\ Len(performanceMetrics.errorRates) = 30
  /\ performanceMetrics.requestsPerSecond[1] = WarmDraw(perfTicks - 29).rps
  /\ performanceMetrics.responseTimes[1] = WarmDraw(perfTicks - 29).responseTime

\* C17: the reported request rate is 0 while fewer than two cumulative
\* snapshots have been received, and otherwise the difference of the totals of
\* the two most recent snapshots divided by the seconds between them.
C17_RateOfLastTwoSnapshots ==
  lbMounted =>
    IF Len(lbSeen) < 2 THEN RequestRate = 0
    ELSE LET elapsedMs == lbSeen[2].timestamp - lbSeen[1].timestamp
         IN (elapsedMs > 0) =>
              RequestRate =
                RoundDiv((lbSeen[2].totalRequests - lbSeen[1].totalRequests) * 1000, elapsedMs)

\* C18: once an update of stats has been applied, the current stats are the
\* payload of the update applied last, whichever channel delivered it.
C18_LastAppliedWins ==
  /\ (statsFrom # NoUpdate) => (stats = lastApplied)
  /\ (statsFrom.chan = "push") => (stats \in StatsPayloads)
  /\ (statsFrom.chan = "poll") => (stats \in StatsOutcomes \ {Failed})

\* C18 witness: a poll delivered a snapshot, a push message was applied after
\* it, and the stats are the push payload.
C18_Witness ==
  /\ lastPoll > 0
  /\ statsFrom = Upd("push", pushSeq)
  /\ lastApplied = PushB
  /\ stats = PushB

\* C19: a callback of the interval creates no event while the servers prop
\* is empty, and otherwise exactly one event, from the hub 'lb' to the name of
\* an entity of the servers prop current at that callback; no other step
\* creates an event.
C19_OneEventPerTickToCurrentEntity ==
  [][LET ticked == intervalDue' # intervalDue /\ gen' = gen /\ topoMounted'
     IN /\ ticked =>
             IF Len(topoServers) = 0 THEN traffic' = traffic
             ELSE /\ Len(traffic') = Len(traffic) + 1
                  /\ SubSeq(traffic', 1, Len(traffic)) = traffic
                  /\ traffic'[Len(traffic')].from = "lb"
                  /\ traffic'[Len(traffic')].to \in Names(topoServers)
        /\ ~ticked => Len(traffic') <= Len(traffic)]_vars

\* C19 witness: the servers prop was replaced by s1 alone after events to s2
\* were created, and an event to s1 was created since.
C19_Witness ==
  /\ Names(topoServers) = {"s1"}
  /\ Len(traffic) >= 2
  /\ traffic[1].to = "s2"
  /\ traffic[Len(traffic)] = [id |-> now, from |-> "lb", to |-> "s1"]

\* C20: when the session is closed the poll timer is stopped and the push
\* channel is closed; from then on no push message is handled, stats and the
\* traffic log do not change, and no periodic poll is issued: a request issued
\* after the close is the refresh of a command that was pending at the close.
C20_CloseStopsTimerAndChannel ==
  [][/\ (phase' = "closed") => (~pollTimer' /\ wsState' = "closed")
     /\ (phase = "closed") =>
          /\ phase' = "closed"
          /\ UNCHANGED <<pushSeq, trafficSeq, stats, servers, trafficData>>
          /\ \A q \in inflight' \ inflight :
               \E r \in inflight \ inflight' : r.kind \in {"algorithm", "request"}]_vars

\* C20 witness: a session that has polled and has applied a push message is
\* closed while a poll is pending; the timer is stopped and the channel closed.
C20_Witness ==
  /\ phase = "closed"
  /\ lastPoll > 0 /\ pushSeq > 0
  /\ \E r \in inflight : r.kind = "stats"
  /\ ~pollTimer /\ wsState = "closed"

\* C21: whenever the push channel has dropped in an open session, it is
\* eventually open again (or the session is closed).
C21_DroppedChannelReestablished ==
  (phase = "mounted" /\ wsState = "closed") ~> (wsState = "open" \/ phase = "closed")

\* C22: in a session that stays open, the connected status (stats is truthy)
\* does not stay true for ever once updates stop being applied: either it is
\* false again and again, or stats updates keep being applied.
C22_OfflineOnceUpdatesStop ==
  <>[](phase = "mounted" /\ stats # NullStats) => []<><<statsFrom' # statsFrom>>_vars

\* C23: a nameless record of the snapshot is dropped and the rest is applied:
\* no history is kept under an empty name, one card is rendered per named
\* record and none for a nameless one, and each named record's newest sample
\* is the one of this snapshot.
C23_NamelessRecordDropped ==
  /\ "" \notin DOMAIN metricsHistory
  /\ Len(smView) = Cardinality({i \in 1..Len(smServers) : HasName(smServers[i])})
  /\ \A i \in 1..Len(smServers) :
       HasName(smServers[i]) =>
         /\ smServers[i].name \in DOMAIN metricsHistory
         /\ LET h == metricsHistory[smServers[i].name]
            IN h[Len(h)] = NewEntry(smServers[i], smNow)

\* the connections of a list, an absent count taken as 0
ConnectionsOrZero(list) ==
  LET acc[i \in 0..Len(list)] ==
        IF i = 0 THEN 0 ELSE acc[i - 1] + OrZero(list[i], "connections")
  IN acc[Len(list)]

\* C24: an absent numeric field counts as 0 in the sample recorded, a record
\* without a healthy flag is never classified unhealthy for that reason alone,
\* and the total of active connections counts an absent connections field as 0.
C24_AbsentFieldsDefault ==
  /\ \A i \in 1..Len(smServers) :
       HasName(smServers[i]) =>
         LET h == metricsHistory[smServers[i].name]
             e == h[Len(h)]
         IN /\ ("cpu_usage" \notin DOMAIN smServers[i] => e.cpu = 0)
            /\ ("memory_usage" \notin DOMAIN smServers[i] => e.memory = 0)
            /\ ("connections" \notin DOMAIN smServers[i] => e.connections = 0)
  /\ \A i \in 1..Len(smServers) :
       "healthy" \notin DOMAIN smServers[i] => smView[i].status # "unhealthy"
  /\ ActiveConnections(smServers) = Num(ConnectionsOrZero(smServers))

\* C25: an update that carries entities reaches the sample history through
\* either entry point: a push update with an entity list replaces the servers
\* list, the one input of the history, just as a poll snapshot does, so that
\* one sample per named entity is appended.
C25_PushUpdateFeedsHistory ==
  [][\A p \in StatsPayloads :
       (WsStatsUpdate(p) /\ "server_stats" \in DOMAIN p) => servers' = p.server_stats]_vars

\* C26: a push event about an entity name never observed before creates that
\* entity: after the event the servers list has a record of that name.
C26_PushEventCreatesEntity ==
  [][(WsEntityEvent("s9") /\ "s9" \notin Names(servers)) => "s9" \in Names(servers')]_vars

\* C27: the layout has the hub node, of role hub, at the centre of the
\* viewport, and one node of role entity per record of the entity list.
C27_HubAtCentreOneNodePerEntity ==
  /\ "lb" \in DOMAIN positions
  /\ positions["lb"] = [x |-> 500 * dimensions.width, y |-> 500 * dimensions.height,
                        type |-> "lb"]
  /\ Cardinality({k \in DOMAIN positions : positions[k].type = "server"}) = Len(lyServers)

\* C28: the layout is a function of the entity list and the viewport alone:
\* every render gets the positions these two determine.  The node of entity 0
\* is level with the centre and 0.3 * min(width, height) to its right; with
\* three entities in a 300 x 300 viewport that is (240, 150), the hub being at
\* (150, 150).
C28_LayoutPureEntityZeroDueEast ==
  /\ positions = CalculatePositions(lyServers, dimensions)
  /\ lyServers # <<>> =>
       LET node == positions[KeyOf(lyServers[1])]
       IN /\ node.x = 500 * dimensions.width
                        + 300 * (IF dimensions.width < dimensions.height
                                 THEN dimensions.width ELSE dimensions.height)
          /\ node.y = 500 * dimensions.height
  /\ (Len(lyServers) = 3 /\ dimensions = [width |-> 300, height |-> 300]) =>
       /\ positions["s1"].x = 240000 /\ positions["s1"].y = 150000
       /\ positions["lb"].x = 150000 /\ positions["lb"].y = 150000

\* three entities in a 300 x 300 viewport, rendered twice
C28_Witness ==
  /\ Len(lyServers) = 3
  /\ dimensions = [width |-> 300, height |-> 300]
  /\ lyRenders = MaxRenders
  /\ positions["s1"].x = 240000
  /\ positions["s3"].x = 105000

\* the names a snapshot gives a sample for
NamedIn(list) == {list[i].name : i \in {j \in 1..Len(list) : HasName(list[j])}}

\* C29: a step that appends samples changes nothing that was there: an entity
\* the snapshot does not name keeps its history as it is, and for an entity it
\* names the samples kept, all but the new last one, are the last samples of
\* the history before the step, unchanged and in the same order, also when
\* the snapshot names several entities.
C29_AppendLeavesSamplesAlone ==
  [][\A n \in DOMAIN metricsHistory :
       /\ n \in DOMAIN metricsHistory'
       /\ LET h == metricsHistory[n]
              g == metricsHistory'[n]
          IN IF n \in NamedIn(smServers')
             THEN /\ Len(g) >= 1
                  /\ Len(g) - 1 <= Len(h)
                  /\ SubSeq(g, 1, Len(g) - 1) = SubSeq(h, Len(h) - Len(g) + 2, Len(h))
             ELSE g = h]_vars

\* after a full history has taken one more sample, a snapshot of s1 alone
\* has been appended while s2 kept its history
C29_Witness ==
  /\ smWarmUp = 18
  /\ smSteps = smWarmUp + MaxSmSteps
  /\ NamedIn(smServers) = {"s1"}
  /\ Len(metricsHistory["s1"]) = 20
  /\ Len(metricsHistory["s2"]) >= 18
  /\ metricsHistory["s2"][Len(metricsHistory["s2"])].timestamp < smNow

\* the sum of a sequence of numbers
SumOf(seq) ==
  LET acc[i \in 0..Len(seq)] == IF i = 0 THEN 0 ELSE acc[i - 1] + seq[i]
  IN acc[Len(seq)]

\* C30: once the panel shows performance figures, the average response time
\* displayed is the mean of the response times held in the rolling sequence.
C30_DisplayedAverageIsBufferMean ==
  (/\ lbMounted
   /\ Len(algorithmHistory) >= 2
   /\ performanceMetrics.responseTimes # <<>>)
  => lbView.avgResponseTime * Len(performanceMetrics.responseTimes)
       = SumOf(performanceMetrics.responseTimes)

\* C31: a step in which an algorithm-change command settles without success
\* (success false, or a failed request) takes the command out of the pending
\* requests and changes nothing else: the label, the stats and the entity
\* list stay as they are and no request is issued.
C31_FailedChangeLeavesAllAlone ==
  [][\A r \in inflight :
       AlgorithmResponse(r, FALSE) =>
         /\ algorithm' = algorithm
         /\ stats' = stats
         /\ servers' = servers
         /\ inflight' = inflight \ {r}
         /\ nextReq' = nextReq]_vars

\* a command was the last request issued and has settled without a poll
\* following it: it failed.  The label is still the initial one although a
\* snapshot has been applied.
C31_Witness ==
  /\ phase = "mounted"
  /\ nextReq = MaxRequests
  /\ \A r \in inflight : r.id < MaxRequests
  /\ algorithm = "round_robin"
  /\ stats = BodyA

\* C33: in a session in which no real traffic data ever arrives, the mock
\* traffic keeps being appended, so that the log eventually holds two entries
\* and the chart is drawn instead of the 'Collecting traffic data' placeholder.
C33_MockTrafficFillsChart ==
  [](tfData = <<>>) => <>(Len(tfLog) >= 2 /\ tfView.chart = "chart")

\* C34: the local log never holds more than 100 entries, and a change of the
\* incoming data appends exactly one entry, the last element of the incoming
\* data with its fields as received, after dropping the oldest entry of a
\* full log.
C34_LogBoundedOneEntryPerChange ==
  [][/\ Len(tfLog') <= 100
     /\ (tfSteps' # tfSteps) =>
          LET last == tfData'[Len(tfData')]
              kept == IF Len(tfLog) < 100 THEN tfLog ELSE Tail(tfLog)
              new == tfLog'[Len(tfLog')]
          IN /\ Len(tfLog') = Len(kept) + 1
             /\ SubSeq(tfLog', 1, Len(kept)) = kept
             /\ \A f \in DOMAIN last : new[f] = last[f]
             /\ DOMAIN new = DOMAIN last \cup {"timestamp"}]_vars

\* after more than 100 traffic updates the log holds 100 entries, the oldest
\* being the second update, the newest the one just received
C34_Witness ==
  /\ tfSteps = tfWarmUp + MaxTfSteps
  /\ tfSteps > 100
  /\ Len(tfLog) = 100
  /\ tfLog[1].requests = tfSteps - 99
  /\ tfLog[1].timestamp = 1000 * (tfSteps - 99)
  /\ tfLog[100].timestamp = tfNow

\* sum of the success rates of a list, 100 standing for an absent one
SumSuccessRates(list) ==
  LET acc[i \in 0..Len(list)] ==
        IF i = 0 THEN 0
        ELSE acc[i - 1] + (IF "successRate" \in DOMAIN list[i] THEN list[i].successRate
                           ELSE 100)
  IN acc[Len(list)]

\* C39: the success rate shown is the mean of the success rates of the last
\* at most 30 entries of the log, an entry without a success rate counting as
\* 100 and one with success rate 0 as 0, and the error rate shown is 100
\* minus that mean.
C39_SuccessRateIsWindowMean ==
  tfLog # <<>> =>
    LET recent == SliceLast(tfLog, 30)
        n == Len(recent)
    IN /\ tfView.stats.successRate = Frac(SumSuccessRates(recent), n)
       /\ tfView.stats.errorRate = Frac(100 * n - SumSuccessRates(recent), n)

\* C35: for each of the three metrics the display asks a trend for, the
\* trend of an entity with at least two samples is a number.
C35_TrendIsANumber ==
  \A i \in 1..Len(smServers) :
    (HasName(smServers[i]) /\ Len(HistoryOf(metricsHistory, smServers[i].name)) >= 2) =>
      \A metric \in {"cpu", "memory", "avg_response_time"} :
        ~CalculateTrend(metricsHistory, smServers[i].name, metric).nan

\* C38: a step that applies a poll or push update with an algorithm in it
\* leaves the label of the selector equal to the algorithm of the stats.
C38_LabelFollowsStats ==
  [][(statsFrom' # statsFrom /\ "algorithm" \in DOMAIN stats')
       => algorithm' = stats'.algorithm]_vars

\* C37: once the session is closed no step changes the stats or the entity
\* list, whatever response arrives.
C37_LateResponseDropped ==
  [][phase = "closed" => (stats' = stats /\ servers' = servers)]_vars

\* a /stats poll settled after the close, and the view is still the snapshot
\* applied before it
C37_Witness ==
  /\ phase = "closed"
  /\ \E r \in lateSettled : r.kind = "stats"
  /\ stats = BodyA
  /\ servers = BodyA.server_stats

\* C32: a push message that cannot be parsed is dropped, by the handler of
\* the session and by the listener of createWebSocket: the stats, the traffic
\* log and the channel stay as they are and the callback is not called.  The
\* handlers stay in place: a parseable stats message is applied and a
\* parseable message is handed to the callback, whatever came before.
C32_UnparseableMessageDropped ==
  [][/\ \A text \in UnparseableTexts :
          /\ OnMessage(text) =>
               (stats' = stats /\ trafficData' = trafficData /\ wsState' = wsState)
          /\ ApiOnMessage(text) => apiCalls' = apiCalls
     /\ \A text \in {MsgStatsA, MsgStatsC} :
          OnMessage(text) => stats' = JsonParse(text).value.payload
     /\ \A text \in ParseableTexts :
          ApiOnMessage(text) => apiCalls' = Append(apiCalls, JsonParse(text).value)]_vars

\* on both sockets an unparseable message was followed by a stats message,
\* which was applied and handed to the callback
C32_Witness ==
  /\ pushSeq = 2 /\ statsFrom = Upd("push", 2) /\ stats = PushA /\ trafficData = <<>>
  /\ apiLog = <<MsgCutOff, MsgStatsA>>
  /\ apiCalls = <<[type |-> "stats_update", payload |-> PushA]>>

====
